---- MODULE Spec2Model ----
(***************************************************************************)
(* Model of gloo-net's futures WebSocket adapter                           *)
(* (crates/net/src/websocket/futures.rs).                                  *)
(*                                                                         *)
(* The adapter owns a browser WebSocket (`ws`), a waker slot               *)
(* (`sink_waker`), the receiving end of an unbounded mpsc channel          *)
(* (`message_receiver`) and the four callbacks registered on the socket    *)
(* (`closures`).  The browser's event loop runs the callbacks; tasks poll  *)
(* the Sink and the Stream.  Everything runs on one thread, so each        *)
(* callback and each poll is one atomic step.                              *)
(*                                                                         *)
(* Option<T> is modelled as a sequence of length at most one.              *)
(***************************************************************************)
EXTENDS Integers, Sequences, FiniteSets, TLC

VARIABLES
    ready_state,       \* ws.ready_state(): 0 Connecting, 1 Open, 2 Closing, 3 Closed
    sink_waker,        \* Rc<RefCell<Option<Waker>>>: None or Some(task)
    message_receiver,  \* the queue of the mpsc channel (StreamMessage values)
    handles,           \* the owners of the adapter that are still live
    close_calls,       \* close commands the adapter issued to the transport, in order
    send_calls,        \* send commands the adapter issued to the transport, in order
    emitted,           \* events the transport delivered to the live callbacks, in order
    yielded,           \* what poll_next returned as Ready(..), in order
    woken,             \* wake() calls made by the adapter, in order
    recv_task,         \* the waker the channel holds for the receiver: None or Some(task)
    stale_calls,       \* callbacks the transport invoked after the closures were dropped
    setup_calls,       \* calls made on the transport while the adapter was constructed
    pended,            \* tasks that got Pending from poll_ready
    op                 \* the last operation and its result

vars == <<ready_state, sink_waker, message_receiver, handles, close_calls,
          send_calls, emitted, yielded, woken, stale_calls, setup_calls, pended,
          recv_task, op>>

\* ---------------------------------------------------------------- bounds

\* traffic in one run: message events, error events and start_send calls together
MaxTraffic == 2

Tasks == {"t1", "t2"}
\* the task polling the stream: t1 is also a task of the sink, t2 is not
StreamTasks == {"t1"}
Payloads == {"a"}
Shapes == {"ArrayBuffer", "JsString"}
CloseInfos ==
    { [code |-> 1000, reason |-> "bye", was_clean |-> TRUE],
      [code |-> 1006, reason |-> "", was_clean |-> FALSE] }
CloseCodes == {999, 1000, 3000}
CloseReasons == {"bye", "r124"}

\* ---------------------------------------------------------------- Option

None == <<>>
Some(x) == <<x>>
OptionOf(S) == {None} \cup {Some(x) : x \in S}

\* ---------------------------------------------------------------- types

CONNECTING == 0
OPEN == 1
CLOSING == 2
CLOSED == 3

\* enum StreamMessage
SM_ErrorEvent == [tag |-> "ErrorEvent"]
SM_CloseEvent(e) == [tag |-> "CloseEvent", event |-> e]
SM_Message(m) == [tag |-> "Message", msg |-> m]
SM_ConnectionClose == [tag |-> "ConnectionClose"]

\* Poll<Option<Result<Message, WebSocketError>>>
Pending == [poll |-> "Pending"]
ReadyNone == [poll |-> "Ready", item |-> None]
ReadySome(x) == [poll |-> "Ready", item |-> Some(x)]
ItemOk(m) == [res |-> "Ok", msg |-> m]
ItemConnectionError == [res |-> "Err", err |-> "ConnectionError"]
ItemConnectionClose(e) == [res |-> "Err", err |-> "ConnectionClose", event |-> e]

\* the adapter exists as long as one owner of it is live
AdapterLive == handles # {}
\* the transport's constructor has returned a socket
SocketExists == setup_calls # <<>> /\ setup_calls[1].result = "Ok"
SinkLive == handles \cap {"whole", "sink"} # {}
StreamLive == handles \cap {"whole", "stream"} # {}

\* ---------------------------------------------------------------- transport
\* The browser's WebSocket, as far as the adapter uses it.

\* WebSocket.close(code, reason): a code other than 1000 or 3000..4999 throws
\* InvalidAccessError, a reason longer than 123 bytes of UTF-8 throws SyntaxError
Utf8Len(reason) == IF reason = "r124" THEN 124 ELSE 3
ws_close_result(code, reason) ==
    IF code # None /\ ~(code[1] = 1000 \/ (code[1] >= 3000 /\ code[1] <= 4999))
    THEN "Err"
    ELSE IF reason # None /\ Utf8Len(reason[1]) > 123 THEN "Err" ELSE "Ok"

\* an accepted close starts the closing handshake unless the socket is already
\* Closing or Closed; a rejected one changes nothing
ws_close_state(rs, result) ==
    IF result = "Ok" /\ rs \in {CONNECTING, OPEN} THEN CLOSING ELSE rs

\* WebSocket.send throws InvalidStateError while Connecting
ws_send_result(rs) == IF rs = CONNECTING THEN "Err" ELSE "Ok"

\* ---------------------------------------------------------------- callbacks

\* mutant: the waker is taken out of the slot and dropped without wake()
open_callback_woken_lost(w, wk) == wk

\* open_callback: waker.borrow_mut().take(), then wake() it
open_callback_waker(w) == None
open_callback_woken(w, wk) == IF w # None THEN Append(wk, w[1]) ELSE wk

parse_message(event) ==
    IF event.shape = "ArrayBuffer"
    THEN [type |-> "Bytes", data |-> event.data]
    ELSE [type |-> "Text", data |-> event.data]

\* sender.unbounded_send: after the push the channel takes the waker the
\* receiver registered, if any, and wakes it
unbounded_send_woken(rt, wk) == wk \o rt
unbounded_send_task(rt) == None

\* mutant: the notification jumps the queue
message_callback_front(q, e) == <<SM_Message(parse_message(e))>> \o q

message_callback(q, e) == Append(q, SM_Message(parse_message(e)))

error_callback(q) == Append(q, SM_ErrorEvent)

\* mutant: the two pushes in the other order
close_callback_swapped(q, e) ==
    LET close_event == [code |-> e.code, reason |-> e.reason, was_clean |-> e.was_clean]
    IN  Append(Append(q, SM_ConnectionClose), SM_CloseEvent(close_event))

\* mutant: only the sentinel is pushed
close_callback_sentinel_only(q, e) == Append(q, SM_ConnectionClose)

close_callback(q, e) ==
    LET close_event == [code |-> e.code, reason |-> e.reason, was_clean |-> e.was_clean]
    IN  Append(Append(q, SM_CloseEvent(close_event)), SM_ConnectionClose)

\* ---------------------------------------------------------------- Sink

\* mutant: ready only while Open
poll_ready_result_open_only(rs) == IF rs # 1 THEN "Pending" ELSE "Ready(Ok)"

poll_ready_result(rs) == IF rs = 0 THEN "Pending" ELSE "Ready(Ok)"
\* mutant: a waker already registered is kept
poll_ready_waker_keep_first(rs, w, t) == IF rs = 0 /\ w = None THEN Some(t) ELSE w

poll_ready_waker(rs, w, t) == IF rs = 0 THEN Some(t) ELSE w
\* the tasks that were told to wait
poll_ready_pended(rs, ps, t) == IF rs = 0 THEN ps \cup {t} ELSE ps

\* mutant: every message goes out as text
start_send_cmd_text(m) == "send_with_str"

\* start_send: the transport's send operation the match selects
start_send_cmd(m) ==
    IF m.type = "Bytes" THEN "send_with_u8_array" ELSE "send_with_str"

start_send_call(m, rs) ==
    [cmd |-> start_send_cmd(m), data |-> m.data, result |-> ws_send_result(rs)]

start_send_return(result) ==
    IF result = "Ok" THEN "Ok" ELSE "Err(MessageSendError)"

\* mutant: closing the sink waits
poll_close_result_pending == "Pending"

\* poll_flush and poll_close: Poll::Ready(Ok(())) and nothing else
poll_flush_result == "Ready(Ok)"
poll_close_result == "Ready(Ok)"

\* ---------------------------------------------------------------- Stream

\* mutant: an empty queue ends the stream
receiver_poll_next_eager(q, senders) ==
    IF q # <<>> THEN ReadySome(Head(q)) ELSE ReadyNone

\* UnboundedReceiver::poll_next: the head of the queue, Pending on an empty
\* queue while a sender lives, None on an empty queue without senders
receiver_poll_next(q, senders) ==
    IF q # <<>> THEN ReadySome(Head(q))
    ELSE IF senders THEN Pending ELSE ReadyNone

\* mutant: an error notification ends the stream
poll_next_result_error_ends(q, senders) ==
    LET msg == receiver_poll_next(q, senders) IN
    IF msg = Pending THEN Pending
    ELSE IF msg.item = None THEN ReadyNone
    ELSE LET m == msg.item[1] IN
         CASE m.tag = "Message" -> ReadySome(ItemOk(m.msg))
           [] m.tag = "ErrorEvent" -> ReadyNone
           [] m.tag = "CloseEvent" -> ReadySome(ItemConnectionClose(m.event))
           [] m.tag = "ConnectionClose" -> ReadyNone

\* Stream::poll_next: the notification at the head of the channel as an item
poll_next_result(q, senders) ==
    LET msg == receiver_poll_next(q, senders) IN
    IF msg = Pending THEN Pending
    ELSE IF msg.item = None THEN ReadyNone
    ELSE LET m == msg.item[1] IN
         CASE m.tag = "Message" -> ReadySome(ItemOk(m.msg))
           [] m.tag = "ErrorEvent" -> ReadySome(ItemConnectionError)
           [] m.tag = "CloseEvent" -> ReadySome(ItemConnectionClose(m.event))
           [] m.tag = "ConnectionClose" -> ReadyNone

poll_next_queue(q) == IF q # <<>> THEN Tail(q) ELSE q

\* message_receiver.poll_next(cx): a poll that returns Pending registers the
\* caller's waker in the channel, over the one registered before
poll_next_task(q, senders, rt, t) ==
    IF receiver_poll_next(q, senders) = Pending THEN Some(t) ELSE rt

\* ---------------------------------------------------------------- drop / close

\* PinnedDrop::drop: self.ws.close().unwrap()
CloseCmd == [cmd |-> "close", code |-> None, reason |-> None, result |-> "Ok"]
\* mutant: the destructor issues no close
drop_calls_none(calls) == calls
\* mutant: the destructor closes only if no close command was issued before
drop_calls_guarded(calls) == IF calls = <<>> THEN Append(calls, CloseCmd) ELSE calls

drop_calls(calls) == Append(calls, CloseCmd)
\* mutant: the destructor's close() does not reach the socket
drop_state_none(rs) == rs

drop_state(rs) == ws_close_state(rs, "Ok")

\* the closures go with the adapter and the last sender with them: the channel
\* is closed and the waker the receiver registered is taken and woken
drop_woken(rt, wk) == wk \o rt

\* mutant: every owner that goes away runs the destructor
drop_runs_always(hs, h) == TRUE

\* the destructor runs when the last owner of the adapter goes away
drop_runs(hs, h) == hs = {h}

\* WebSocket::close: the command the match selects
close_command(code, reason) ==
    CASE code = None /\ reason = None ->
            [cmd |-> "close", code |-> None, reason |-> None]
      [] code # None /\ reason = None ->
            [cmd |-> "close_with_code", code |-> code, reason |-> None]
      [] code # None /\ reason # None ->
            [cmd |-> "close_with_code_and_reason", code |-> code, reason |-> reason]
      [] code = None /\ reason # None ->
            [cmd |-> "close_with_code_and_reason", code |-> Some(1005), reason |-> reason]

close_call(code, reason) ==
    LET c == close_command(code, reason) IN
    [cmd |-> c.cmd, code |-> c.code, reason |-> c.reason,
     result |-> ws_close_result(c.code, c.reason)]

\* mutant: the transport's error is swallowed
close_return_ok(result) == "Ok"

\* result.map_err(js_to_js_error): what close returns
close_return(result) == result

\* ---------------------------------------------------------------- construction

\* WebSocket::open(url), open_with_protocol(url, protocol) and
\* open_with_protocols(url, protocols), by what decides their outcome
Urls == {"valid", "invalid", "blocked_port"}
OpenInputs ==
    {[fn |-> "open", url |-> u, protocols |-> "-"] : u \in Urls}
    \cup {[fn |-> "open_with_protocol", url |-> u, protocols |-> pr] :
              u \in Urls, pr \in {"supported", "unsupported"}}
    \cup {[fn |-> "open_with_protocols", url |-> u, protocols |-> pr] :
              u \in Urls, pr \in {"supported", "unsupported", "unserializable"}}
DefaultOpen == [fn |-> "open", url |-> "valid", protocols |-> "-"]

\* new WebSocket(url, protocols) throws on a URL it cannot use, on a blocked
\* port and on a protocol it does not take
ws_new_result(url, protocols) ==
    IF url = "valid" /\ protocols \in {"-", "supported"} THEN "Ok" ELSE "Err"

\* the constructor call of the transport an open function makes: all three
\* (new, new_with_str, new_with_str_sequence) are `new WebSocket(url, protocols)`;
\* when JsValue::from_serde fails, `?` returns before the transport is called
open_calls(input) ==
    IF input.fn = "open_with_protocols" /\ input.protocols = "unserializable"
    THEN <<>>
    ELSE <<[call |-> "new", result |-> ws_new_result(input.url, input.protocols)]>>

\* mutant: the first handler is registered before the binary type is set
setup_late_binary(ws) ==
    IF ws = "Err" THEN [result |-> "Err", calls |-> <<>>]
    ELSE [result |-> "Ok",
          calls |-> <<[call |-> "set_onopen", result |-> "Ok"],
                      [call |-> "set_binary_type", result |-> "Ok"],
                      [call |-> "set_onmessage", result |-> "Ok"],
                      [call |-> "set_onerror", result |-> "Ok"],
                      [call |-> "set_onclose", result |-> "Ok"]>>]

\* WebSocket::setup(ws): `ws.map_err(..)?` returns the error at once; otherwise
\* the calls made on the socket, in order, and Ok(Self)
setup(ws) ==
    IF ws = "Err" THEN [result |-> "Err", calls |-> <<>>]
    ELSE [result |-> "Ok",
          calls |-> <<[call |-> "set_binary_type", result |-> "Ok"],
                      [call |-> "set_onopen", result |-> "Ok"],
                      [call |-> "set_onmessage", result |-> "Ok"],
                      [call |-> "set_onerror", result |-> "Ok"],
                      [call |-> "set_onclose", result |-> "Ok"]>>]

\* ---------------------------------------------------------------- events

EvOpen == [type |-> "open"]
EvMessage(shape, data) == [type |-> "message", shape |-> shape, data |-> data]
EvError == [type |-> "error"]
EvClose(info) ==
    [type |-> "close", code |-> info.code, reason |-> info.reason,
     was_clean |-> info.was_clean]

Messages == {[type |-> ty, data |-> d] : ty \in {"Bytes", "Text"}, d \in Payloads}

\* message and error events the transport has fired so far
RECURSIVE CountEvents(_)
CountEvents(evs) ==
    IF evs = <<>> THEN 0
    ELSE (IF Head(evs).type \in {"message", "error"} THEN 1 ELSE 0)
         + CountEvents(Tail(evs))

Fired == CountEvents(emitted) + CountEvents(stale_calls)
Traffic == Fired + Len(send_calls)

Op(name, task, res) == [name |-> name, task |-> task, res |-> res]

\* ---------------------------------------------------------------- Init

\* the state WebSocket::setup returns: the socket is Connecting, the waker
\* slot is empty, the channel is empty and the adapter has one owner
Init ==
    /\ ready_state = CONNECTING
    /\ sink_waker = None
    /\ message_receiver = <<>>
    /\ handles = {"whole"}
    /\ close_calls = <<>>
    /\ send_calls = <<>>
    /\ emitted = <<>>
    /\ yielded = <<>>
    /\ woken = <<>>
    /\ recv_task = None
    /\ stale_calls = <<>>
    /\ setup_calls = open_calls(DefaultOpen) \o setup("Ok").calls
    /\ pended = {}
    /\ op = Op("setup", "-", "Ok")

\* ---------------------------------------------------------------- transport events
\* Each one is a task of the browser's event loop: it sets the ready state and
\* calls the handler registered on the socket.  The handlers are never
\* unregistered, so after the adapter is gone the call reaches a dropped closure.
\* The adapter relies on no order among the events, so the transport here is as
\* free as the socket's ready state allows: open once, out of Connecting;
\* messages while Open; error events at any time before the close event; one
\* close event, out of any state, after which the socket is Closed and silent.

TOpen ==
    /\ SocketExists
    /\ ready_state = CONNECTING
    /\ ready_state' = OPEN
    /\ IF AdapterLive
       THEN /\ sink_waker' = open_callback_waker(sink_waker)
            /\ woken' = open_callback_woken(sink_waker, woken)
            /\ emitted' = Append(emitted, EvOpen)
            /\ UNCHANGED stale_calls
       ELSE /\ stale_calls' = Append(stale_calls, EvOpen)
            /\ UNCHANGED <<sink_waker, woken, emitted>>
    /\ op' = Op("on_open", "-", "-")
    /\ UNCHANGED recv_task
    /\ UNCHANGED <<message_receiver, handles, close_calls, send_calls, yielded>>
    /\ UNCHANGED <<setup_calls, pended>>

TMessage(shape, data) ==
    /\ SocketExists
    /\ ready_state = OPEN
    /\ Traffic < MaxTraffic
    /\ IF AdapterLive
       THEN /\ message_receiver' = message_callback(message_receiver, EvMessage(shape, data))
            /\ emitted' = Append(emitted, EvMessage(shape, data))
            /\ woken' = unbounded_send_woken(recv_task, woken)
            /\ recv_task' = unbounded_send_task(recv_task)
            /\ UNCHANGED stale_calls
       ELSE /\ stale_calls' = Append(stale_calls, EvMessage(shape, data))
            /\ UNCHANGED <<message_receiver, emitted, woken, recv_task>>
    /\ op' = Op("on_message", "-", "-")
    /\ UNCHANGED <<ready_state, sink_waker, handles, close_calls, send_calls,
                   yielded>>
    /\ UNCHANGED <<setup_calls, pended>>

TError ==
    /\ SocketExists
    /\ ready_state # CLOSED
    /\ Traffic < MaxTraffic
    /\ IF AdapterLive
       THEN /\ message_receiver' = error_callback(message_receiver)
            /\ emitted' = Append(emitted, EvError)
            /\ woken' = unbounded_send_woken(recv_task, woken)
            /\ recv_task' = unbounded_send_task(recv_task)
            /\ UNCHANGED stale_calls
       ELSE /\ stale_calls' = Append(stale_calls, EvError)
            /\ UNCHANGED <<message_receiver, emitted, woken, recv_task>>
    /\ op' = Op("on_error", "-", "-")
    /\ UNCHANGED <<ready_state, sink_waker, handles, close_calls, send_calls,
                   yielded>>
    /\ UNCHANGED <<setup_calls, pended>>

\* the peer starts the closing handshake
TClosing ==
    /\ SocketExists
    /\ ready_state = OPEN
    /\ ready_state' = CLOSING
    /\ op' = Op("closing", "-", "-")
    /\ UNCHANGED <<sink_waker, message_receiver, handles, close_calls, send_calls,
                   emitted, yielded, woken, stale_calls>>
    /\ UNCHANGED <<setup_calls, pended>>
    /\ UNCHANGED recv_task

\* the connection is closed (or the attempt to connect failed)
TClose(info) ==
    /\ SocketExists
    /\ ready_state # CLOSED
    /\ ready_state' = CLOSED
    /\ IF AdapterLive
       THEN /\ message_receiver' = close_callback(message_receiver, EvClose(info))
            /\ emitted' = Append(emitted, EvClose(info))
            /\ woken' = unbounded_send_woken(recv_task, woken)
            /\ recv_task' = unbounded_send_task(recv_task)
            /\ UNCHANGED stale_calls
       ELSE /\ stale_calls' = Append(stale_calls, EvClose(info))
            /\ UNCHANGED <<message_receiver, emitted, woken, recv_task>>
    /\ op' = Op("on_close", "-", "-")
    /\ UNCHANGED <<sink_waker, handles, close_calls, send_calls, yielded>>
    /\ UNCHANGED <<setup_calls, pended>>

\* ---------------------------------------------------------------- adapter operations

PollReady(t) ==
    /\ SinkLive
    /\ sink_waker' = poll_ready_waker(ready_state, sink_waker, t)
    /\ op' = Op("poll_ready", t, poll_ready_result(ready_state))
    /\ UNCHANGED <<ready_state, message_receiver, handles, close_calls, send_calls,
                   emitted, yielded, woken, stale_calls>>
    /\ pended' = poll_ready_pended(ready_state, pended, t)
    /\ UNCHANGED setup_calls
    /\ UNCHANGED recv_task

StartSend(m) ==
    /\ SinkLive
    /\ Traffic < MaxTraffic
    /\ LET call == start_send_call(m, ready_state)
       IN  /\ send_calls' = Append(send_calls, call)
           /\ op' = Op("start_send", m, start_send_return(call.result))
    /\ UNCHANGED <<ready_state, sink_waker, message_receiver, handles, close_calls,
                   emitted, yielded, woken, stale_calls>>
    /\ UNCHANGED <<setup_calls, pended>>
    /\ UNCHANGED recv_task

PollFlush ==
    /\ SinkLive
    /\ op' = Op("poll_flush", "-", poll_flush_result)
    /\ UNCHANGED <<ready_state, sink_waker, message_receiver, handles, close_calls,
                   send_calls, emitted, yielded, woken, stale_calls>>
    /\ UNCHANGED <<setup_calls, pended>>
    /\ UNCHANGED recv_task

PollClose ==
    /\ SinkLive
    /\ op' = Op("poll_close", "-", poll_close_result)
    /\ UNCHANGED <<ready_state, sink_waker, message_receiver, handles, close_calls,
                   send_calls, emitted, yielded, woken, stale_calls>>
    /\ UNCHANGED <<setup_calls, pended>>
    /\ UNCHANGED recv_task

\* the senders live in the closures, which the adapter owns
PollNext(t) ==
    /\ StreamLive
    /\ LET res == poll_next_result(message_receiver, AdapterLive) IN
       /\ op' = Op("poll_next", "-", res)
       /\ yielded' = IF res = Pending THEN yielded ELSE Append(yielded, res.item)
    /\ message_receiver' = poll_next_queue(message_receiver)
    /\ recv_task' = poll_next_task(message_receiver, AdapterLive, recv_task, t)
    /\ UNCHANGED <<ready_state, sink_waker, handles, close_calls, send_calls,
                   emitted, woken, stale_calls>>
    /\ UNCHANGED <<setup_calls, pended>>

\* StreamExt::split: the sink half and the stream half own the adapter together
Split ==
    /\ "whole" \in handles
    /\ handles' = {"sink", "stream"}
    /\ op' = Op("split", "-", "-")
    /\ UNCHANGED <<ready_state, sink_waker, message_receiver, close_calls, send_calls,
                   emitted, yielded, woken, stale_calls>>
    /\ UNCHANGED <<setup_calls, pended>>
    /\ UNCHANGED recv_task

\* an owner is dropped; the last one takes the adapter with it: the destructor
\* runs, then the fields (waker slot, receiver, closures) are dropped
Drop(h) ==
    /\ h \in handles
    /\ handles' = handles \ {h}
    /\ IF drop_runs(handles, h)
       THEN /\ close_calls' = drop_calls(close_calls)
            /\ ready_state' = drop_state(ready_state)
            /\ sink_waker' = None
            /\ message_receiver' = <<>>
            /\ woken' = drop_woken(recv_task, woken)
            /\ recv_task' = None
            /\ op' = Op("drop", h, "released")
       ELSE /\ op' = Op("drop", h, "kept")
            /\ UNCHANGED <<close_calls, ready_state, sink_waker, message_receiver,
                           woken, recv_task>>
    /\ UNCHANGED <<send_calls, emitted, yielded, stale_calls>>
    /\ UNCHANGED <<setup_calls, pended>>

\* WebSocket::close(self, code, reason): the command goes to the transport, and
\* self is dropped when the function returns
Close(code, reason) ==
    /\ "whole" \in handles
    /\ LET call == close_call(code, reason) IN
       /\ close_calls' = drop_calls(Append(close_calls, call))
       /\ ready_state' = drop_state(ws_close_state(ready_state, call.result))
       /\ op' = Op("close", [code |-> code, reason |-> reason], close_return(call.result))
    /\ handles' = {}
    /\ sink_waker' = None
    /\ message_receiver' = <<>>
    /\ woken' = drop_woken(recv_task, woken)
    /\ recv_task' = None
    /\ UNCHANGED <<send_calls, emitted, yielded, stale_calls>>
    /\ UNCHANGED <<setup_calls, pended>>

Next ==
    \/ TOpen
    \/ \E shape \in Shapes, data \in Payloads : TMessage(shape, data)
    \/ TError
    \/ TClosing
    \/ \E info \in CloseInfos : TClose(info)
    \/ \E t \in Tasks : PollReady(t)
    \/ \E m \in Messages : StartSend(m)
    \/ PollFlush
    \/ PollClose
    \/ \E t \in StreamTasks : PollNext(t)
    \/ Split
    \/ \E h \in {"whole", "sink", "stream"} : Drop(h)
    \/ \E code \in OptionOf(CloseCodes), reason \in OptionOf(CloseReasons) :
          Close(code, reason)

Spec == Init /\ [][Next]_vars

\* ---------------------------------------------------------------- construction, as a step

\* before any open function is called: no socket, no adapter
InitSetup ==
    /\ ready_state = CONNECTING
    /\ sink_waker = None
    /\ message_receiver = <<>>
    /\ handles = {}
    /\ close_calls = <<>>
    /\ send_calls = <<>>
    /\ emitted = <<>>
    /\ yielded = <<>>
    /\ woken = <<>>
    /\ recv_task = None
    /\ stale_calls = <<>>
    /\ setup_calls = <<>>
    /\ pended = {}
    /\ op = Op("start", "-", "-")

\* one of the open functions, through WebSocket::setup
Setup(input) ==
    /\ op.name = "start"
    /\ LET made == open_calls(input)
           r == IF made = <<>> THEN [result |-> "Err", calls |-> <<>>]
                ELSE setup(made[1].result)
       IN  /\ setup_calls' = made \o r.calls
           /\ handles' = IF r.result = "Ok" THEN {"whole"} ELSE {}
           /\ op' = Op("setup", input, r.result)
    /\ UNCHANGED <<ready_state, sink_waker, message_receiver, close_calls, send_calls,
                   emitted, yielded, woken, stale_calls, pended>>
    /\ UNCHANGED recv_task

NextSetup ==
    \/ \E input \in OpenInputs : Setup(input)
    \/ Next

SpecSetup == InitSetup /\ [][NextSetup]_vars

\* ---------------------------------------------------------------- a transport that keeps firing

\* The callbacks do not look at the ready state: a transport that fires a
\* message or error event after its close event gets it pushed like any other.
TLateMessage(shape, data) ==
    /\ SocketExists
    /\ ready_state = CLOSED
    /\ Traffic < MaxTraffic
    /\ IF AdapterLive
       THEN /\ message_receiver' = message_callback(message_receiver, EvMessage(shape, data))
            /\ emitted' = Append(emitted, EvMessage(shape, data))
            /\ woken' = unbounded_send_woken(recv_task, woken)
            /\ recv_task' = unbounded_send_task(recv_task)
            /\ UNCHANGED stale_calls
       ELSE /\ stale_calls' = Append(stale_calls, EvMessage(shape, data))
            /\ UNCHANGED <<message_receiver, emitted, woken, recv_task>>
    /\ op' = Op("on_message", "-", "-")
    /\ UNCHANGED <<ready_state, sink_waker, handles, close_calls, send_calls,
                   yielded, setup_calls, pended>>

TLateError ==
    /\ SocketExists
    /\ ready_state = CLOSED
    /\ Traffic < MaxTraffic
    /\ IF AdapterLive
       THEN /\ message_receiver' = error_callback(message_receiver)
            /\ emitted' = Append(emitted, EvError)
            /\ woken' = unbounded_send_woken(recv_task, woken)
            /\ recv_task' = unbounded_send_task(recv_task)
            /\ UNCHANGED stale_calls
       ELSE /\ stale_calls' = Append(stale_calls, EvError)
            /\ UNCHANGED <<message_receiver, emitted, woken, recv_task>>
    /\ op' = Op("on_error", "-", "-")
    /\ UNCHANGED <<ready_state, sink_waker, handles, close_calls, send_calls,
                   yielded, setup_calls, pended>>

\* the stream side of the adapter on such a transport
NextFree ==
    \/ TOpen
    \/ \E shape \in Shapes, data \in Payloads : TMessage(shape, data)
    \/ TError
    \/ \E info \in CloseInfos : TClose(info)
    \/ \E shape \in Shapes, data \in Payloads : TLateMessage(shape, data)
    \/ TLateError
    \/ \E t \in StreamTasks : PollNext(t)
    \/ Drop("whole")

SpecFree == Init /\ [][NextFree]_vars

\* ================================================================ properties

IsItem(y) == y # None
\* the items poll_next has yielded so far, end-of-stream markers left out
ItemsYielded ==
    LET ys == SelectSeq(yielded, IsItem) IN [i \in DOMAIN ys |-> ys[i][1]]

\* what the transport's event is to show up as on the stream: a binary payload
\* as Ok(Bytes), a string payload as Ok(Text), an error event as ConnectionError,
\* a close event as ConnectionClose with the event's fields, an open event not at all
RECURSIVE ExpectedItems(_)
ExpectedItems(evs) ==
    IF evs = <<>> THEN <<>>
    ELSE LET ev == Head(evs)
             rest == ExpectedItems(Tail(evs))
         IN  CASE ev.type = "open" -> rest
               [] ev.type = "message" /\ ev.shape = "ArrayBuffer" ->
                    <<[res |-> "Ok", msg |-> [type |-> "Bytes", data |-> ev.data]]>> \o rest
               [] ev.type = "message" /\ ev.shape = "JsString" ->
                    <<[res |-> "Ok", msg |-> [type |-> "Text", data |-> ev.data]]>> \o rest
               [] ev.type = "error" ->
                    <<[res |-> "Err", err |-> "ConnectionError"]>> \o rest
               [] ev.type = "close" ->
                    <<[res |-> "Err", err |-> "ConnectionClose",
                       event |-> [code |-> ev.code, reason |-> ev.reason,
                                  was_clean |-> ev.was_clean]]>> \o rest

IsPrefix(a, b) == Len(a) <= Len(b) /\ SubSeq(b, 1, Len(a)) = a

IsNotSentinel(n) == n.tag # "ConnectionClose"
\* notifications in the channel that stand for an event
Undelivered == Len(SelectSeq(message_receiver, IsNotSentinel))

HasEvent(type) == \E i \in DOMAIN emitted : emitted[i].type = type

\* C1: the items the stream has yielded are the message, error and close events
\* emitted so far, in emission order and with their payloads, up to the events
\* still waiting in the channel: nothing is dropped, duplicated or reordered, and
\* an open event yields nothing.
C1_StreamFollowsEvents ==
    /\ IsPrefix(ItemsYielded, ExpectedItems(emitted))
    /\ AdapterLive =>
          /\ Len(ItemsYielded) + Undelivered = Len(ExpectedItems(emitted))
          /\ (Undelivered = 0 => ItemsYielded = ExpectedItems(emitted))

C1_Witness ==
    /\ AdapterLive
    /\ HasEvent("open") /\ HasEvent("message") /\ HasEvent("error") /\ HasEvent("close")
    /\ Len(ItemsYielded) = 3
    /\ ItemsYielded = ExpectedItems(emitted)

\* C2: every end-of-stream the stream has yielded comes right after the
\* ConnectionClose item that carries the code, reason and clean flag of the
\* transport's close event; end-of-stream is never yielded first.
C2_CloseInfoBeforeEnd ==
    \A i \in DOMAIN yielded :
        yielded[i] = None =>
            /\ i > 1
            /\ \E j \in DOMAIN emitted :
                  /\ emitted[j].type = "close"
                  /\ yielded[i - 1] =
                        Some([res |-> "Err", err |-> "ConnectionClose",
                              event |-> [code |-> emitted[j].code,
                                         reason |-> emitted[j].reason,
                                         was_clean |-> emitted[j].was_clean]])

C2_Witness ==
    /\ Len(yielded) >= 2
    /\ yielded[Len(yielded)] = None
    /\ yielded[Len(yielded) - 1] =
          Some(ItemConnectionClose([code |-> 1000, reason |-> "bye", was_clean |-> TRUE]))

\* C3: a poll_next returns end-of-stream exactly when the ConnectionClose
\* notification is at the head of the channel, and then the transport has emitted
\* a close event; on an empty channel of a live adapter it returns Pending.
C3_EndIffConnectionClose ==
    [][op'.name = "poll_next" =>
          /\ (op'.res = ReadyNone) <=>
                (message_receiver # <<>> /\ Head(message_receiver) = SM_ConnectionClose)
          /\ (op'.res = ReadyNone) => HasEvent("close")
          /\ (message_receiver = <<>>) => op'.res = Pending]_vars

C3_Witness ==
    /\ op.name = "poll_next"
    /\ op.res = ReadyNone
    /\ message_receiver = <<>>

\* C4: poll_ready returns Pending exactly when the ready state read by the call
\* is Connecting, and then registers the caller's waker; in Open, Closing and
\* Closed it returns Ready(Ok) and leaves the waker slot as it was.  Nothing but
\* the ready state decides the result.
C4_PollReadyByState ==
    [][op'.name = "poll_ready" =>
          /\ (op'.res = "Pending") <=> (ready_state = CONNECTING)
          /\ (ready_state = CONNECTING) => sink_waker' = Some(op'.task)
          /\ (ready_state \in {OPEN, CLOSING, CLOSED}) =>
                (op'.res = "Ready(Ok)" /\ sink_waker' = sink_waker)]_vars

C4_Witness ==
    /\ op.name = "poll_ready" /\ op.task = "t2" /\ op.res = "Ready(Ok)"
    /\ ready_state = CLOSED
    /\ sink_waker = Some("t1")
    /\ message_receiver # <<>>
    /\ yielded # <<>>

\* C5: the open callback wakes the task whose waker is registered (the one that
\* last got Pending) and empties the slot; the waker poll_ready registered is
\* woken by nothing else, so it is not woken before the open notification: every
\* other wake-up the adapter makes takes the waker poll_next left in the channel;
\* from then on poll_ready returns Ready(Ok) and start_send is accepted by the
\* transport.
C5_OpenWakesSender ==
    [][/\ (op'.name = "on_open" /\ AdapterLive /\ sink_waker # None) =>
             (woken' = Append(woken, sink_waker[1]) /\ sink_waker' = None)
       /\ (op'.name = "on_open") => (ready_state = CONNECTING /\ recv_task' = recv_task)
       /\ (op'.name # "on_open" /\ woken' # woken) =>
             /\ recv_task # None
             /\ woken' = woken \o recv_task
             /\ recv_task' = None
             /\ sink_waker' \in {sink_waker, None}
       /\ (op'.name = "poll_ready" /\ HasEvent("open")) => op'.res = "Ready(Ok)"
       /\ (op'.name = "start_send" /\ HasEvent("open")) => op'.res = "Ok"]_vars

C5_Witness ==
    /\ woken = <<"t1", "t2">>
    /\ pended = {"t2"}
    /\ sink_waker = None
    /\ ready_state = OPEN
    /\ op.name = "start_send" /\ op.res = "Ok"

\* C6: no task stays suspended in poll_ready once the transport has left
\* Connecting: a waker still registered on a live adapter means the transport is
\* still Connecting (the slot is emptied, and its task woken, by whatever event
\* takes the transport out of Connecting).
C6_SuspendedOnlyWhileConnecting ==
    (AdapterLive /\ sink_waker # None) => ready_state = CONNECTING

\* C7 (as amended): releasing the last owner of the adapter issues exactly one
\* close() to the transport in every connection state; on a socket that is
\* already Closing or Closed the call changes nothing, otherwise the socket
\* becomes Closing.
C7_DropClosesOnce ==
    [][(op'.name = "drop" /\ handles # {} /\ handles' = {}) =>
          /\ close_calls' = Append(close_calls, CloseCmd)
          /\ Len(close_calls') = 1
          /\ ready_state' = IF ready_state \in {CONNECTING, OPEN}
                            THEN CLOSING ELSE ready_state]_vars

C7_Witness ==
    /\ op.name = "drop" /\ op.task = "stream" /\ op.res = "released"
    /\ HasEvent("close")
    /\ ready_state = CLOSED
    /\ close_calls = <<CloseCmd>>

\* C7 as stated: releasing the last owner issues one close command unless the
\* connection is already Closed, and none if it is.
C7_NoCloseWhenClosed ==
    [][(op'.name = "drop" /\ handles # {} /\ handles' = {}) =>
          IF ready_state = CLOSED
          THEN close_calls' = close_calls
          ELSE Len(close_calls') = Len(close_calls) + 1]_vars

\* C8 (as amended): close(code, reason) issues two close commands, the one its
\* arguments select, whose result it returns, and then the destructor's close(),
\* and leaves no owner of the adapter.
C8_CloseThenDestructor ==
    op.name = "close" =>
        /\ Len(close_calls) = 2
        /\ close_calls[1].result = op.res
        /\ close_calls[2] = CloseCmd
        /\ handles = {}

C8_Witness ==
    /\ op.name = "close" /\ op.res = "Ok"
    /\ Len(close_calls) = 2
    /\ close_calls[1].cmd = "close_with_code_and_reason"
    /\ ready_state = CLOSING

\* C8 as stated: after close(code, reason) the transport has got one close
\* command in total.
C8_OneCloseCommand ==
    op.name = "close" => Len(close_calls) = 1

\* C9: dropping one half while the other lives issues no close command and leaves
\* the ready state, the channel, the waker slot and the callbacks as they were;
\* dropping the last owner issues the destructor's close().
C9_HalfDropKeepsConnection ==
    [][op'.name = "drop" =>
          IF handles' # {}
          THEN /\ close_calls' = close_calls
               /\ ready_state' = ready_state
               /\ message_receiver' = message_receiver
               /\ sink_waker' = sink_waker
               /\ recv_task' = recv_task
               /\ woken' = woken
               /\ AdapterLive'
          ELSE close_calls' = Append(close_calls, CloseCmd)]_vars

C9_Witness ==
    /\ op.name = "drop" /\ op.task = "sink" /\ op.res = "kept"
    /\ handles = {"stream"}
    /\ ready_state = OPEN
    /\ message_receiver # <<>>
    /\ close_calls = <<>>

\* C10: the transport never calls a callback after the adapter, and with it the
\* closures, has been released.
C10_NoCallbackAfterRelease ==
    stale_calls = <<>>

\* C11: close(code, reason) hands the transport the command its arguments
\* select, and a reason-only close closes the connection with code 1005 and the
\* given reason: the transport accepts that command.
C11_CloseCommandByArguments ==
    op.name = "close" =>
        LET code == op.task.code
            reason == op.task.reason
            sent == [cmd |-> close_calls[1].cmd, code |-> close_calls[1].code,
                     reason |-> close_calls[1].reason]
        IN  /\ (code = None /\ reason = None) =>
                  sent = [cmd |-> "close", code |-> None, reason |-> None]
            /\ (code # None /\ reason = None) =>
                  sent = [cmd |-> "close_with_code", code |-> code, reason |-> None]
            /\ (code # None /\ reason # None) =>
                  sent = [cmd |-> "close_with_code_and_reason", code |-> code,
                          reason |-> reason]
            /\ (code = None /\ reason # None) =>
                  /\ sent = [cmd |-> "close_with_code_and_reason", code |-> Some(1005),
                             reason |-> reason]
                  /\ (Utf8Len(reason[1]) <= 123 => close_calls[1].result = "Ok")

\* C12: close returns Err exactly when the transport rejects the command it was
\* handed (a code other than 1000 and outside 3000..4999, or a reason of more
\* than 123 bytes), and Ok otherwise; the transport's result is what it returns.
C12_CloseErrorIffRejected ==
    op.name = "close" =>
        LET c == close_calls[1]
            bad_code == c.code # None /\ c.code[1] # 1000
                        /\ ~(c.code[1] >= 3000 /\ c.code[1] <= 4999)
            bad_reason == c.reason # None /\ Utf8Len(c.reason[1]) > 123
        IN  /\ (op.res = "Err") <=> (bad_code \/ bad_reason)
            /\ op.res \in {"Ok", "Err"}
            /\ op.res = c.result

C12_Witness ==
    /\ op.name = "close"
    /\ op.res = "Err"
    /\ op.task.code = Some(3000)
    /\ op.task.reason = Some("r124")

\* C13: start_send calls the transport's send once, send_with_u8_array for
\* Bytes and send_with_str for Text, with the message's payload, in every ready
\* state and after the calls made before; it returns Ok when the transport
\* accepts (always while Open) and Err(MessageSendError) when it rejects, and
\* leaves the waker slot, the channel and the ready state alone.
C13_StartSendForwards ==
    [][op'.name = "start_send" =>
          LET m == op'.task IN
          /\ Len(send_calls') = Len(send_calls) + 1
          /\ SubSeq(send_calls', 1, Len(send_calls)) = send_calls
          /\ send_calls'[Len(send_calls')].data = m.data
          /\ send_calls'[Len(send_calls')].cmd =
                (CASE m.type = "Bytes" -> "send_with_u8_array"
                   [] m.type = "Text" -> "send_with_str")
          /\ (op'.res = "Ok") <=> (send_calls'[Len(send_calls')].result = "Ok")
          /\ (op'.res # "Ok") => op'.res = "Err(MessageSendError)"
          /\ (ready_state = OPEN) => op'.res = "Ok"
          /\ UNCHANGED <<sink_waker, message_receiver, ready_state, close_calls>>]_vars

C13_Witness ==
    /\ op.name = "start_send"
    /\ Len(send_calls) = 2
    /\ send_calls[1] = [cmd |-> "send_with_str", data |-> "a", result |-> "Err"]
    /\ send_calls[2] = [cmd |-> "send_with_u8_array", data |-> "a", result |-> "Ok"]
    /\ ready_state = OPEN

Handlers == {"set_onopen", "set_onmessage", "set_onerror", "set_onclose"}
CallsOf(names) == {i \in DOMAIN setup_calls : setup_calls[i].call \in names}

\* C14: an open function returns Err exactly when the URL is unusable, the port
\* blocked, a protocol unsupported or the protocol list not serializable; then
\* there is no adapter, no handler is ever registered and the binary type is
\* never set.  When it returns Ok, the binary type was set before the first
\* handler was registered and each of the four handlers was registered once.
C14_SetupAllOrNothing ==
    op.name # "start" =>
        /\ op.name = "setup" =>
              /\ (op.res = "Err") <=>
                    (op.task.url # "valid"
                     \/ op.task.protocols \in {"unsupported", "unserializable"})
              /\ (op.res = "Ok") <=> AdapterLive
        /\ ~SocketExists =>
              /\ ~AdapterLive
              /\ CallsOf(Handlers \cup {"set_binary_type"}) = {}
              /\ emitted = <<>> /\ stale_calls = <<>> /\ close_calls = <<>>
        /\ SocketExists =>
              /\ \A h \in Handlers : Cardinality(CallsOf({h})) = 1
              /\ Cardinality(CallsOf({"set_binary_type"})) = 1
              /\ \A b \in CallsOf({"set_binary_type"}), i \in CallsOf(Handlers) : b < i

C14_Witness ==
    /\ op.name = "setup"
    /\ op.res = "Err"
    /\ op.task = [fn |-> "open", url |-> "invalid", protocols |-> "-"]
    /\ setup_calls = <<[call |-> "new", result |-> "Err"]>>

\* C15: poll_flush and poll_close return Ready(Ok) in every ready state and
\* change nothing: no send, no close command, the same ready state, waker slot,
\* channel and owners.  A poll_next that follows a poll_close still yields the
\* message at the head of the channel.
C15_FlushAndCloseAreNoOps ==
    [][/\ op'.name \in {"poll_flush", "poll_close"} =>
             /\ op'.res = "Ready(Ok)"
             /\ UNCHANGED <<ready_state, sink_waker, message_receiver, handles,
                            close_calls, send_calls, emitted, yielded, woken,
                            recv_task>>
       /\ (op.name = "poll_close" /\ op'.name = "poll_next"
           /\ message_receiver # <<>> /\ Head(message_receiver).tag = "Message") =>
             op'.res = ReadySome(ItemOk(Head(message_receiver).msg))]_vars

C15_Witness ==
    /\ op.name = "poll_close"
    /\ op.res = "Ready(Ok)"
    /\ ready_state = OPEN
    /\ message_receiver # <<>>
    /\ Head(message_receiver).tag = "Message"
    /\ close_calls = <<>>
    /\ send_calls # <<>>

IsErrorItem(x) == x = ItemConnectionError
IsErrorEvent(ev) == ev.type = "error"
IsErrorNotification(n) == n.tag = "ErrorEvent"

\* C16: as long as the transport has emitted no close event the stream has
\* never yielded end-of-stream, however many error events there were; each error
\* event is one ConnectionError item, yielded or still in the channel, and the
\* items yielded keep the emission order, messages after an error included.
C16_ErrorNeverEndsStream ==
    ~HasEvent("close") =>
        /\ \A i \in DOMAIN yielded : yielded[i] # None
        /\ IsPrefix(ItemsYielded, ExpectedItems(emitted))
        /\ AdapterLive =>
              Len(SelectSeq(ItemsYielded, IsErrorItem))
                 + Len(SelectSeq(message_receiver, IsErrorNotification))
              = Len(SelectSeq(emitted, IsErrorEvent))

C16_Witness ==
    /\ ~HasEvent("close")
    /\ AdapterLive
    /\ Len(emitted) >= 2
    /\ emitted[Len(emitted) - 1].type = "error"
    /\ emitted[Len(emitted)].type = "message"
    /\ Len(ItemsYielded) = 2
    /\ ItemsYielded[1] = ItemConnectionError
    /\ ItemsYielded[2].res = "Ok"
    /\ op.name = "poll_next" /\ op.res = Pending

\* C17 (as stated): in the channel every CloseEvent notification is immediately
\* followed by a ConnectionClose notification and every ConnectionClose
\* notification is immediately preceded by a CloseEvent notification.
C17_ClosePairAdjacentInChannel ==
    \A i \in DOMAIN message_receiver :
        /\ message_receiver[i].tag = "CloseEvent" =>
              /\ i < Len(message_receiver)
              /\ message_receiver[i + 1] = SM_ConnectionClose
        /\ message_receiver[i] = SM_ConnectionClose =>
              /\ i > 1
              /\ message_receiver[i - 1].tag = "CloseEvent"

\* C17 (amended): every CloseEvent notification in the channel is immediately
\* followed by a ConnectionClose notification; every ConnectionClose
\* notification is immediately preceded by its CloseEvent notification, or is at
\* the head of the channel and the last thing the stream yielded is the
\* ConnectionClose item of that close event.
C17_ClosePairAdjacentUntilTaken ==
    \A i \in DOMAIN message_receiver :
        /\ message_receiver[i].tag = "CloseEvent" =>
              /\ i < Len(message_receiver)
              /\ message_receiver[i + 1] = SM_ConnectionClose
        /\ message_receiver[i] = SM_ConnectionClose =>
              IF i > 1 THEN message_receiver[i - 1].tag = "CloseEvent"
              ELSE /\ yielded # <<>>
                   /\ yielded[Len(yielded)] # None
                   /\ yielded[Len(yielded)][1].res = "Err"
                   /\ yielded[Len(yielded)][1].err = "ConnectionClose"

C17_Witness ==
    /\ message_receiver = <<SM_ConnectionClose>>
    /\ op.name = "poll_next"
    /\ HasEvent("message")
    /\ HasEvent("error")
    /\ Len(ItemsYielded) = 3

\* C18: the waker slot holds at most one waker.  A poll_ready that returns
\* Pending puts the caller's waker in the slot whatever was there and wakes
\* nobody; the open callback wakes the waker in the slot, which is the one of the
\* last Pending caller, and empties the slot; nothing else fills the slot.  The
\* open callback runs once, and any other wake-up takes the waker of the
\* channel, not one poll_ready registered.  So of the wakers several tasks
\* registered through poll_ready at most one, the last, is ever woken.
C18_WakerSlotOverwritten ==
    [][/\ Len(sink_waker') <= 1
       /\ \A i \in DOMAIN sink_waker' : sink_waker'[i] \in pended'
       /\ (op'.name = "on_open") => (ready_state = CONNECTING /\ ready_state' = OPEN)
       /\ (ready_state' = CONNECTING) => (ready_state = CONNECTING)
       /\ (op'.name = "poll_ready" /\ ready_state = CONNECTING) =>
             /\ sink_waker' = Some(op'.task)
             /\ woken' = woken
       /\ (op'.name = "on_open" /\ AdapterLive) =>
             /\ woken' = woken \o sink_waker
             /\ sink_waker' = None
       /\ (sink_waker' # sink_waker /\ op'.name # "poll_ready") => sink_waker' = None
       /\ (op'.name # "on_open") => woken' \in {woken, woken \o recv_task}]_vars

C18_Witness ==
    /\ pended = {"t1", "t2"}
    /\ woken = <<"t2">>
    /\ sink_waker = None
    /\ ready_state = OPEN
    /\ op.name = "on_open"

\* C20: when close(code, reason) returns, with Ok or with Err, the transport has
\* been handed a close command it accepted and is Closing or Closed; a call whose
\* own command was rejected on a Connecting or Open socket still moves the socket
\* out of that state, through the destructor's close().
C20_CloseAlwaysCloses ==
    [][op'.name = "close" =>
          /\ ready_state' \in {CLOSING, CLOSED}
          /\ \E i \in DOMAIN close_calls' :
                i > Len(close_calls) /\ close_calls'[i].result = "Ok"
          /\ (op'.res = "Err" /\ ready_state \in {CONNECTING, OPEN}) =>
                /\ ready_state' = CLOSING
                /\ close_calls'[Len(close_calls) + 1].result = "Err"
                /\ close_calls'[Len(close_calls) + 2] = CloseCmd]_vars

C20_Witness ==
    /\ op.name = "close"
    /\ op.res = "Err"
    /\ ready_state = CLOSING
    /\ HasEvent("open")
    /\ close_calls[1].result = "Err"
    /\ ~HasEvent("close")

\* how many events the transport has emitted after its close event
EventsAfterClose ==
    IF ~HasEvent("close") THEN 0
    ELSE Len(emitted) - (CHOOSE i \in DOMAIN emitted : emitted[i].type = "close")

EndYielded == \E i \in DOMAIN yielded : yielded[i] = None

\* C19 (as stated): once the stream has yielded end-of-stream it yields no item
\* any more, whatever the transport emits afterwards.
C19_EndOfStreamFinal ==
    \A i \in DOMAIN yielded, j \in DOMAIN yielded :
        (yielded[i] = None /\ i < j) => yielded[j] = None

\* C19 (amended): once the stream has yielded end-of-stream, a later poll_next
\* returns Pending as long as the transport has emitted nothing after its close
\* event, and returns an item only for an event the transport emitted after its
\* close event.
C19_EndFinalUnlessLateEvent ==
    [][(op'.name = "poll_next" /\ EndYielded) =>
          /\ (EventsAfterClose = 0) => op'.res = Pending
          /\ (op'.res # Pending) =>
                /\ EventsAfterClose > 0
                /\ op'.res # ReadyNone
                /\ message_receiver # <<>>
          /\ IsPrefix(ItemsYielded', ExpectedItems(emitted))]_vars

C19_Witness ==
    /\ op.name = "poll_next"
    /\ Len(yielded) >= 3
    /\ yielded[Len(yielded) - 1] = None
    /\ yielded[Len(yielded)] = Some(ItemConnectionError)
    /\ ready_state = CLOSED

====
